---- MODULE Spec2Model ----
(***************************************************************************)
(* Model of the multi-agent workflow (src/src/graph.py), its four stage    *)
(* functions (src/src/agents/*.py) and the tiered memory                   *)
(* (src/src/memory/*.py).                                                  *)
(*                                                                         *)
(* Text is a sequence of tokens (strings); "" is <<>>.  The language model *)
(* ("oracle"), the tools and the embedding model are the environment:      *)
(* their answers are drawn from small sets.                                *)
(*                                                                         *)
(* The specifications share the variables:                                 *)
(*   Spec       the facade: MultiAgentSystem() then run() calls            *)
(*   SpecConfig the constructor under any provider settings, then run()    *)
(*   SpecStage  one stage function (or the router) called directly on an   *)
(*              arbitrary AgentState                                       *)
(*   SpecSTM    ShortTermMemory driven directly                            *)
(*   SpecLTM    LongTermMemory driven directly                             *)
(***************************************************************************)
EXTENDS Integers, Sequences, FiniteSets, TLC

VARIABLES
    pc,        \* position of the run / of the direct call
    caller,    \* "graph": stages run as graph nodes; "direct": called directly
    state,     \* the AgentState dict the current stage works on
    ex,        \* locals of ExecutorAgent.execute and of its AgentExecutor loop
    calls,     \* every request sent to the oracle, in order
    trace,     \* nodes (and the router) the graph has run in this invocation
    user_input,\* argument of the current run()
    result,    \* what the last run() returned
    runs,      \* number of run() calls started
    tools,     \* ToolRegistry.tools: name -> tool
    exec_tools,\* ExecutorAgent.tools: the list taken from the registry at construction
    max_messages, \* ShortTermMemory.max_messages
    stm,       \* ShortTermMemory.memory.chat_memory.messages
    stm_added, \* messages passed to add_message since construction / clear
    embed,     \* the embedding model: text -> vector
    ltm,       \* the vector store: id -> text
    ltm_op,    \* last LongTermMemory operation and what it returned
    env,       \* the process environment read by FreeLLMFactory.create_llm
    reg_log    \* add_tool / remove_tool calls made on the registry since construction

vars == <<pc, caller, state, ex, calls, trace, user_input, result, runs,
          tools, exec_tools, max_messages, stm, stm_added, embed, ltm, ltm_op, env,
          reg_log>>

-----------------------------------------------------------------------------
(* Bounds of the model *)

MaxSubtasks == 2      \* longest plan the planning oracle returns
MaxIssues == 2        \* longest issue list the validation oracle returns
MaxRuns == 1          \* run() calls per behaviour
MaxCap == 2           \* largest ShortTermMemory capacity tried in SpecSTM
MaxAdds == 4          \* add_message calls between two clear() in SpecSTM
MaxK == 2             \* largest k passed to retrieve in SpecLTM
MaxRepeat == 2        \* run() calls per behaviour in SpecRuns
MaxRegOps == 3        \* add_tool / remove_tool calls per behaviour in SpecRegistry
MaxToolChanges == 1   \* add_tool / remove_tool calls per behaviour in SpecTools

-----------------------------------------------------------------------------
(* Python values *)

None == <<"None">>
Some(x) == <<"Some", x>>
Absent == <<"absent">>          \* a key the dict does not hold
IsSome(o) == Len(o) = 2
Get(o) == o[2]

\* str.join
RECURSIVE Join(_, _)
Join(sep, parts) ==
    IF parts = <<>> THEN <<>>
    ELSE IF Len(parts) = 1 THEN parts[1]
    ELSE parts[1] \o sep \o Join(sep, Tail(parts))

Whitespace == {" ", "\n"}

\* str.strip
RECURSIVE LStrip(_)
LStrip(t) == IF t # <<>> /\ Head(t) \in Whitespace THEN LStrip(Tail(t)) ELSE t
RECURSIVE RStrip(_)
RStrip(t) ==
    IF t # <<>> /\ t[Len(t)] \in Whitespace THEN RStrip(SubSeq(t, 1, Len(t) - 1)) ELSE t
Strip(t) == LStrip(RStrip(t))

\* str.startswith("ERROR")
StartsWithERROR(t) == t # <<>> /\ Head(t) = "ERROR"

\* dict item assignment d[k] = v
DictSet(d, k, v) == [x \in DOMAIN d \cup {k} |-> IF x = k THEN v ELSE d[x]]
EmptyDict == [x \in {} |-> 0]

Message(role, content) == [role |-> role, content |-> content]

-----------------------------------------------------------------------------
(* What the environment may answer *)

Queries == {<<"q1">>, <<"q2">>}
Subtasks == {<<"Load X">>, <<"Summarize">>}
ErrorTexts == {<<"boom">>}                        \* str(e) of a raised exception
ResultTexts == {<<>>, <<"r">>, <<"ERROR", "r">>}  \* final answers of the tool loop
IssueTexts == {<<"missing citation">>}
CorrectedTexts == {<<"fixed">>}
Confidences == {"0.80"}
Complexities == {"medium"}
ToolNames == {"analyze_data", "generate_forecast", "validate_output", "fetch_external_data"}

SeqsUpTo(S, n) == UNION {[1..k -> S] : k \in 0..n}

TaskPlans ==
    [subtasks : SeqsUpTo(Subtasks, MaxSubtasks),
     estimated_complexity : Complexities,
     required_tools : {<<"analyze_data">>}]

\* the runs of the facade: one query text, plans that are a prefix of one list
\* of subtasks, and a blank or a non-blank final answer of the tool loop
PlanPool == [k \in 1..MaxSubtasks |-> <<"subtask ", ToString(k)>>]
RunTaskPlans ==
    [subtasks : {SubSeq(PlanPool, 1, k) : k \in 0..MaxSubtasks},
     estimated_complexity : Complexities,
     required_tools : {<<"analyze_data">>}]
RunResultTexts == {<<>>, <<"r">>}
RunQueries == {<<"q1">>}

ValidationResults ==
    [is_valid : BOOLEAN,
     confidence : Confidences,
     issues : SeqsUpTo(IssueTexts, MaxIssues)]

-----------------------------------------------------------------------------
(* The last LongTermMemory operation *)

LtmOp(op, value, query, k, res, prev) ==
    [op |-> op, value |-> value, query |-> query, k |-> k, res |-> res, prev |-> prev]

LtmIdle == LtmOp("none", <<>>, <<>>, 0, <<>>, None)

-----------------------------------------------------------------------------
(* The oracle log *)

\* reply: <<"ok", answer>> or <<"raised", str(e)>>
Call(agent, input, reply) == [agent |-> agent, input |-> input, reply |-> reply]
Ok(x) == <<"ok", x>>
Raised(e) == <<"raised", e>>

-----------------------------------------------------------------------------
(* FreeLLMFactory.create_llm *)

\* str.lower on the provider names tried
Lower(s) == CASE s = "GROQ" -> "groq" [] s = "Ollama" -> "ollama" [] OTHER -> s

\* values of an environment variable holding a key: unset, empty, set
KeyValues == {Absent, Some(""), Some("key")}

\* importable: whether the package of the selected provider can be imported
Envs ==
    [LLM_PROVIDER : {Absent} \cup {Some(n) : n \in {"groq", "GROQ", "together",
                                                     "huggingface", "Ollama", "openai"}},
     GROQ_API_KEY : KeyValues,
     TOGETHER_API_KEY : KeyValues,
     HUGGINGFACE_API_KEY : KeyValues,
     importable : BOOLEAN]

\* line 56: os.getenv("LLM_PROVIDER", "groq").lower()
provider(e) == Lower(IF e.LLM_PROVIDER = Absent THEN "groq" ELSE Get(e.LLM_PROVIDER))

\* `not api_key`: the variable is unset or empty
key_missing(v) == v = Absent \/ v = Some("")

\* _create_groq, _create_together, _create_huggingface: import, then the key
create_with_key(e, v) ==
    IF ~e.importable THEN Raised("ImportError")
    ELSE IF key_missing(v) THEN Raised("ValueError")
    ELSE Ok(provider(e))

\* _create_ollama: import only
create_ollama(e) == IF ~e.importable THEN Raised("ImportError") ELSE Ok(provider(e))

\* create_llm building the client whatever the settings are, so that a wrong
\* setting surfaces only when the client is first used (what C19 rules out)
create_llm_lazy(e) == Ok(provider(e))

\* create_llm: the client, or the exception it raises
create_llm(e) ==
    CASE provider(e) = "groq" -> create_with_key(e, e.GROQ_API_KEY)
      [] provider(e) = "together" -> create_with_key(e, e.TOGETHER_API_KEY)
      [] provider(e) = "huggingface" -> create_with_key(e, e.HUGGINGFACE_API_KEY)
      [] provider(e) = "ollama" -> create_ollama(e)
      [] OTHER -> Raised("ValueError")

\* the settings of a system that was constructed: the default provider and its key
ConfiguredEnv ==
    [LLM_PROVIDER |-> Absent, GROQ_API_KEY |-> Some("key"), TOGETHER_API_KEY |-> Absent,
     HUGGINGFACE_API_KEY |-> Absent, importable |-> TRUE]

-----------------------------------------------------------------------------
(* ShortTermMemory *)

max_messages_default == 50

\* list[-n:]
LastN(list, n) ==
    LET len == Len(list)
        start == IF n > 0 THEN (IF len - n > 0 THEN len - n ELSE 0) ELSE
                 (IF 0 - n < len THEN 0 - n ELSE len)
    IN  SubSeq(list, start + 1, len)

\* add_message trimming from the wrong end: it keeps the oldest messages (what
\* C9 rules out)
add_message_keep_oldest(messages, cap, role, content) ==
    LET appended == Append(messages, Message(role, content))
    IN  IF Len(appended) > cap THEN SubSeq(appended, 1, cap) ELSE appended

\* ShortTermMemory.add_message: the list after the call
add_message(messages, cap, role, content) ==
    LET appended == Append(messages, Message(role, content))
    IN  IF Len(appended) > cap THEN LastN(appended, cap) ELSE appended

-----------------------------------------------------------------------------
(* MultiAgentSystem.run: the initial state and the graph *)

initial_state(q) ==
    [messages |-> <<Message("user", q)>>,
     current_plan |-> None,
     execution_results |-> <<>>,
     validation_status |-> None,
     corrections_needed |-> <<>>,
     final_output |-> None,
     metadata |-> EmptyDict]

\* last: how the latest agent_executor.invoke ended, Ok(output) or Raised(str(e))
\* failed: how many invokes raised so far; asked: the tool the oracle asked for
\* in the latest iteration of the running loop ("" when it asked for none)
ExIdle == [at |-> "enter", plan |-> <<>>, i |-> 0, results |-> <<>>,
           iterations |-> 0, pad |-> "empty", last |-> None, failed |-> 0,
           asked |-> ""]

\* should_correct with the test inverted to "not passed": an unset status
\* would be sent to the corrector (what C2 rules out)
should_correct_unset(s) ==
    IF s.validation_status = Some("passed") THEN "end" ELSE "corrector"

\* the router of the conditional edge
should_correct(s) == IF s.validation_status = Some("failed") THEN "corrector" ELSE "end"

\* the branch map of add_conditional_edges
BranchTarget(key) == IF key = "corrector" THEN "corrector" ELSE "END"

\* a merge by replacement: the channel keeps only the latest turn written (what
\* C26 rules out)
messages_reducer_latest(old, new) == <<new[Len(new)]>>

\* the reducer of AgentState.messages
messages_reducer(old, new) == old \o new

\* the edges with corrector wired back to validator instead of END (what C3
\* rules out)
edge_target_loop(node, s) ==
    CASE node = "planner" -> "executor"
      [] node = "executor" -> "validator"
      [] node = "validator" -> BranchTarget(should_correct(s))
      [] node = "corrector" -> "validator"

\* the edges of the graph (lines 160-177): the node that follows `node`
edge_target(node, s) ==
    CASE node = "planner" -> "executor"
      [] node = "executor" -> "validator"
      [] node = "validator" -> BranchTarget(should_correct(s))
      [] node = "corrector" -> "END"

\* A stage function has returned: as a graph node its writes are applied next.
Return(node) == IF caller = "graph" THEN <<node, "writes">> ELSE <<node, "returned">>

\* run() handing the graph the state of the run before, with only the turns
\* started over (what C28 rules out)
Run_reuse_state(q) ==
    /\ pc = <<"idle">>
    /\ runs' = runs + 1
    /\ user_input' = q
    /\ state' = [state EXCEPT !.messages = <<Message("user", q)>>]
    /\ ex' = ExIdle
    /\ calls' = <<>>
    /\ trace' = <<"planner">>
    /\ caller' = "graph"
    /\ result' = None
    /\ pc' = <<"planner">>
    /\ UNCHANGED <<tools, exec_tools, max_messages, stm, stm_added, embed, ltm, ltm_op, env, reg_log>>

\* run(): build the initial state and invoke the graph at its entry point
Run(q) ==
    /\ pc = <<"idle">>
    /\ runs' = runs + 1
    /\ user_input' = q
    /\ state' = initial_state(q)
    /\ ex' = ExIdle
    /\ calls' = <<>>
    /\ trace' = <<"planner">>
    /\ caller' = "graph"
    /\ result' = None
    /\ pc' = <<"planner">>
    /\ UNCHANGED <<tools, exec_tools, max_messages, stm, stm_added, embed, ltm, ltm_op, env, reg_log>>

\* The engine applies a node's returned state to the channels and follows the
\* node's edge.  The stage mutated state["messages"] in place and returned the
\* same list, so the reducer adds the list to itself.
EngineWrites ==
    /\ Len(pc) = 2 /\ pc[2] = "writes"
    /\ LET node == pc[1]
           merged == [state EXCEPT !.messages = messages_reducer(state.messages, state.messages)]
           next == <<edge_target(node, merged)>>
       IN  /\ state' = merged
           /\ pc' = next
           /\ trace' = IF node = "validator"
                       THEN trace \o <<"router">> \o
                            (IF next = <<"END">> THEN <<>> ELSE next)
                       ELSE IF next = <<"END">> THEN trace ELSE trace \o next
    /\ ex' = ExIdle
    /\ UNCHANGED <<caller, calls, user_input, result, runs, tools, exec_tools,
                   max_messages, stm, stm_added, embed, ltm, ltm_op, env, reg_log>>

\* run() recording the answer before the question (what C18 rules out)
RunReturn_assistant_first ==
    /\ pc = <<"END">>
    /\ LET m1 == add_message(stm, max_messages, "assistant", state.final_output)
           m2 == add_message(m1, max_messages, "user", Some(user_input))
       IN  /\ stm' = m2
           /\ stm_added' = stm_added \o <<Message("assistant", state.final_output),
                                         Message("user", Some(user_input))>>
    /\ result' = Some([output |-> state.final_output,
                       plan |-> state.current_plan,
                       messages |-> state.messages,
                       metadata |-> state.metadata])
    /\ pc' = <<"idle">>
    /\ UNCHANGED <<caller, state, ex, calls, trace, user_input, runs, tools, exec_tools,
                   max_messages, embed, ltm, ltm_op, env, reg_log>>

\* run() after graph.invoke returned: record the turn and build the result
RunReturn ==
    /\ pc = <<"END">>
    /\ LET m1 == add_message(stm, max_messages, "user", Some(user_input))
           m2 == add_message(m1, max_messages, "assistant", state.final_output)
       IN  /\ stm' = m2
           /\ stm_added' = stm_added \o <<Message("user", Some(user_input)),
                                         Message("assistant", state.final_output)>>
    /\ result' = Some([output |-> state.final_output,
                       plan |-> state.current_plan,
                       messages |-> state.messages,
                       metadata |-> state.metadata])
    /\ pc' = <<"idle">>
    /\ UNCHANGED <<caller, state, ex, calls, trace, user_input, runs, tools, exec_tools,
                   max_messages, embed, ltm, ltm_op, env, reg_log>>

\* run() recording the question although graph.invoke raised, as if the user
\* record were written before the graph is entered (what C32 rules out)
RunRaise_records_user ==
    /\ Len(pc) = 2 /\ pc[2] = "raised" /\ caller = "graph"
    /\ result' = <<"raised">>
    /\ pc' = <<"idle">>
    /\ stm' = add_message(stm, max_messages, "user", Some(user_input))
    /\ stm_added' = Append(stm_added, Message("user", Some(user_input)))
    /\ UNCHANGED <<caller, state, ex, calls, trace, user_input, runs, tools, exec_tools,
                   max_messages, embed, ltm, ltm_op, env, reg_log>>

\* run() when graph.invoke raised: the exception leaves run at line 233
RunRaise ==
    /\ Len(pc) = 2 /\ pc[2] = "raised" /\ caller = "graph"
    /\ result' = <<"raised">>
    /\ pc' = <<"idle">>
    /\ UNCHANGED <<caller, state, ex, calls, trace, user_input, runs, tools, exec_tools,
                   max_messages, stm, stm_added, embed, ltm, ltm_op, env, reg_log>>

-----------------------------------------------------------------------------
(* PlannerAgent.plan *)

\* plan starting the other fields over (what C23 rules out)
plan_state_reset(s, plan) ==
    [s EXCEPT
       !.current_plan = Some(plan.subtasks),
       !.execution_results = <<>>,
       !.validation_status = None,
       !.metadata = DictSet(DictSet(s.metadata, "required_tools", plan.required_tools),
                            "estimated_complexity", plan.estimated_complexity),
       !.messages = Append(s.messages,
           Message("planner",
                   <<"Created execution plan with ", ToString(Len(plan.subtasks)),
                     " subtasks. Complexity: ", plan.estimated_complexity>>))]

\* lines 128-142
plan_state(s, plan) ==
    [s EXCEPT
       !.current_plan = Some(plan.subtasks),
       !.metadata = DictSet(DictSet(s.metadata, "required_tools", plan.required_tools),
                            "estimated_complexity", plan.estimated_complexity),
       !.messages = Append(s.messages,
           Message("planner",
                   <<"Created execution plan with ", ToString(Len(plan.subtasks)),
                     " subtasks. Complexity: ", plan.estimated_complexity>>))]

\* the task sent to the oracle: the content of the last message
plan_task(s) == s.messages[Len(s.messages)].content

PlannerPlan(plan) ==
    /\ pc = <<"planner">>
    /\ calls' = Append(calls, Call("planner", <<plan_task(state)>>, Ok(plan)))
    /\ state' = plan_state(state, plan)
    /\ pc' = Return("planner")
    /\ UNCHANGED <<caller, ex, trace, user_input, result, runs, tools, exec_tools,
                   max_messages, stm, stm_added, embed, ltm, ltm_op, env, reg_log>>

\* plan swallowing the oracle's failure and returning the state as it was (what
\* C8 rules out)
PlannerFail_swallow(e) ==
    /\ pc = <<"planner">>
    /\ calls' = Append(calls, Call("planner", <<plan_task(state)>>, Raised(e)))
    /\ pc' = Return("planner")
    /\ UNCHANGED <<caller, state, ex, trace, user_input, result, runs, tools, exec_tools,
                   max_messages, stm, stm_added, embed, ltm, ltm_op, env, reg_log>>

\* chain.invoke raises (oracle or parser): nothing was written yet
PlannerFail(e) ==
    /\ pc = <<"planner">>
    /\ calls' = Append(calls, Call("planner", <<plan_task(state)>>, Raised(e)))
    /\ pc' = <<"planner", "raised">>
    /\ UNCHANGED <<caller, state, ex, trace, user_input, result, runs, tools, exec_tools,
                   max_messages, stm, stm_added, embed, ltm, ltm_op, env, reg_log>>

-----------------------------------------------------------------------------
(* ExecutorAgent: the AgentExecutor loop and execute *)

max_iterations == 10

tool_names(ts) == [k \in 1..Len(ts) |-> <<ts[k]>>]

\* the scratchpad of the loop, kept as the kind of its latest observation
PadIdle == "empty"

\* execute, line 125: state.get("current_plan", []) and the start of the for loop.
\* enumerate(None) raises TypeError outside the try block.
ExecuteEnter ==
    /\ pc = <<"executor">>
    /\ ex.at = "enter"
    /\ IF state.current_plan = None
       THEN /\ pc' = <<"executor", "raised">>
            /\ ex' = ex
       ELSE /\ pc' = pc
            /\ ex' = [ExIdle EXCEPT !.at = "loop",
                        !.plan = IF state.current_plan = Absent THEN <<>>
                                 ELSE Get(state.current_plan)]
    /\ UNCHANGED <<caller, state, calls, trace, user_input, result, runs, tools,
                   exec_tools, max_messages, stm, stm_added, embed, ltm, ltm_op, env, reg_log>>

InLoop == pc = <<"executor">> /\ ex.at = "loop" /\ ex.i < Len(ex.plan)

\* the input of the loop for the current subtask (lines 137-140)
loop_input == [input |-> ex.plan[ex.i + 1],
               tool_names |-> Join(<<", ">>, tool_names(exec_tools))]

\* execute storing every result under one key instead of one key per subtask,
\* so that a later result replaces the earlier ones (what C17 rules out)
next_subtask_one_key(text) ==
    [ex EXCEPT !.results = <<text>>, !.i = ex.i + 1,
               !.iterations = 0, !.pad = PadIdle, !.asked = ""]

\* execute going on to the next subtask before the result of the current one is
\* recorded (what C25 rules out)
next_subtask_unrecorded(text) ==
    [ex EXCEPT !.i = ex.i + 1, !.iterations = 0, !.pad = PadIdle, !.asked = ""]

\* results[f"subtask_{i}"] = text, and on to the next subtask
next_subtask(text) ==
    [ex EXCEPT !.results = Append(ex.results, text), !.i = ex.i + 1,
               !.iterations = 0, !.pad = PadIdle, !.asked = ""]

\* f"ERROR: {str(e)}"
error_result(e) == <<"ERROR", ": ">> \o e

\* the oracle gives a final answer: invoke returns {"output": text}
LoopFinish(text) ==
    /\ InLoop /\ ex.iterations < max_iterations
    /\ ex' = [next_subtask(text) EXCEPT !.last = Ok(text)]
    /\ UNCHANGED <<pc, caller, state, calls, trace, user_input, result, runs, tools,
                   exec_tools, max_messages, stm, stm_added, embed, ltm, ltm_op, env, reg_log>>

\* the oracle call raises: invoke raises, execute records the error (line 148)
LoopOracleError(e) ==
    /\ InLoop /\ ex.iterations < max_iterations
    /\ ex' = [next_subtask(error_result(e)) EXCEPT !.last = Raised(e),
                                                   !.failed = ex.failed + 1]
    /\ UNCHANGED <<pc, caller, state, calls, trace, user_input, result, runs, tools,
                   exec_tools, max_messages, stm, stm_added, embed, ltm, ltm_op, env, reg_log>>

\* the loop without its cap: the iteration count starts over instead of
\* reaching max_iterations (what C20 rules out)
LoopParseError_uncapped ==
    /\ InLoop /\ ex.iterations < max_iterations
    /\ ex' = [ex EXCEPT !.iterations = (ex.iterations + 1) % max_iterations,
                        !.pad = "parse_error", !.asked = ""]
    /\ UNCHANGED <<pc, caller, state, calls, trace, user_input, result, runs, tools,
                   exec_tools, max_messages, stm, stm_added, embed, ltm, ltm_op, env, reg_log>>

\* the oracle's answer does not parse: handle_parsing_errors=True feeds the
\* error back as an observation
LoopParseError ==
    /\ InLoop /\ ex.iterations < max_iterations
    /\ ex' = [ex EXCEPT !.iterations = ex.iterations + 1,
                        !.pad = "parse_error", !.asked = ""]
    /\ UNCHANGED <<pc, caller, state, calls, trace, user_input, result, runs, tools,
                   exec_tools, max_messages, stm, stm_added, embed, ltm, ltm_op, env, reg_log>>

IsExecTool(name) == \E k \in 1..Len(exec_tools) : exec_tools[k] = name

\* the loop not counting an iteration in which a tool ran, so that an oracle
\* that keeps asking for tools is never stopped (what C21 rules out)
LoopToolCall_uncounted(name, raises, e) ==
    /\ InLoop /\ ex.iterations < max_iterations
    /\ ex' = IF ~IsExecTool(name)
             THEN [ex EXCEPT !.iterations = ex.iterations + 1,
                             !.pad = "invalid_tool", !.asked = name]
             ELSE IF raises
             THEN [next_subtask(error_result(e)) EXCEPT !.last = Raised(e),
                                                        !.failed = ex.failed + 1]
             ELSE [ex EXCEPT !.pad = "tool_output", !.asked = name]
    /\ UNCHANGED <<pc, caller, state, calls, trace, user_input, result, runs, tools,
                   exec_tools, max_messages, stm, stm_added, embed, ltm, ltm_op, env, reg_log>>

\* the loop giving up on the subtask when the oracle asks for a tool it does not
\* hold, as if the tool had raised (what C29 rules out)
LoopToolCall_miss_aborts(name, raises, e) ==
    /\ InLoop /\ ex.iterations < max_iterations
    /\ ex' = IF ~IsExecTool(name)
             THEN [next_subtask(error_result(e)) EXCEPT !.last = Raised(e),
                                                        !.failed = ex.failed + 1,
                                                        !.asked = name]
             ELSE IF raises
             THEN [next_subtask(error_result(e)) EXCEPT !.last = Raised(e),
                                                        !.failed = ex.failed + 1]
             ELSE [ex EXCEPT !.iterations = ex.iterations + 1,
                             !.pad = "tool_output", !.asked = name]
    /\ UNCHANGED <<pc, caller, state, calls, trace, user_input, result, runs, tools,
                   exec_tools, max_messages, stm, stm_added, embed, ltm, ltm_op, env, reg_log>>

\* the oracle asks for a tool: a name the executor does not hold gives an
\* "is not a valid tool" observation; a tool that raises makes invoke raise
LoopToolCall(name, raises, e) ==
    /\ InLoop /\ ex.iterations < max_iterations
    /\ ex' = IF ~IsExecTool(name)
             THEN [ex EXCEPT !.iterations = ex.iterations + 1,
                             !.pad = "invalid_tool", !.asked = name]
             ELSE IF raises
             THEN [next_subtask(error_result(e)) EXCEPT !.last = Raised(e),
                                                        !.failed = ex.failed + 1]
             ELSE [ex EXCEPT !.iterations = ex.iterations + 1,
                             !.pad = "tool_output", !.asked = name]
    /\ UNCHANGED <<pc, caller, state, calls, trace, user_input, result, runs, tools,
                   exec_tools, max_messages, stm, stm_added, embed, ltm, ltm_op, env, reg_log>>

StoppedText == <<"Agent stopped due to iteration limit or time limit.">>

\* max_iterations reached: the loop returns its stopped response as the output
LoopExhausted ==
    /\ InLoop /\ ex.iterations = max_iterations
    /\ ex' = [next_subtask(StoppedText) EXCEPT !.last = Ok(StoppedText)]
    /\ UNCHANGED <<pc, caller, state, calls, trace, user_input, result, runs, tools,
                   exec_tools, max_messages, stm, stm_added, embed, ltm, ltm_op, env, reg_log>>

\* line 154: sum(1 for v in results.values() if not v.startswith("ERROR"))
successful_count(results) ==
    Cardinality({k \in 1..Len(results) : ~StartsWithERROR(results[k])})

\* execute, lines 150-163
execute_state(s, results) ==
    LET successful == successful_count(results)
    IN  [s EXCEPT
           !.execution_results = results,
           !.messages = Append(s.messages,
               Message("executor",
                       <<"Completed ", ToString(Len(results)), " subtasks (",
                         ToString(successful), " successful, ",
                         ToString(Len(results) - successful), " errors)">>))]

ExecuteReturn ==
    /\ pc = <<"executor">> /\ ex.at = "loop" /\ ex.i = Len(ex.plan)
    /\ state' = execute_state(state, ex.results)
    /\ pc' = Return("executor")
    /\ ex' = [ex EXCEPT !.at = "done"]
    /\ UNCHANGED <<caller, calls, trace, user_input, result, runs, tools,
                   exec_tools, max_messages, stm, stm_added, embed, ltm, ltm_op, env, reg_log>>

-----------------------------------------------------------------------------
(* ValidatorAgent.validate *)

\* the key of the k-th entry of execution_results, f"subtask_{i}"
subtask_key(k) == <<"subtask_", ToString(k - 1)>>

\* lines 128-132: "\n\n".join(f"Subtask {k}: {v}" ...)
combined_output(results) ==
    Join(<<"\n", "\n">>,
         [k \in 1..Len(results) |-> <<"Subtask ">> \o subtask_key(k) \o <<": ">> \o results[k]])

\* validate and correct reading the latest turn, as plan does (what C30 rules
\* out)
original_query_latest(s) == s.messages[Len(s.messages)].content

\* line 125
original_query(s) == s.messages[1].content

\* validate taking the short way only when there are entries and all of them
\* are blank, so that an empty mapping goes to the oracle (what C31 rules out)
no_results_some_entry(s) ==
    /\ s.execution_results # <<>>
    /\ Strip(combined_output(s.execution_results)) = <<>>

\* line 135
no_results(s) == Strip(combined_output(s.execution_results)) = <<>>

\* lines 136-142
validate_no_results(s) ==
    [s EXCEPT
       !.validation_status = Some("failed"),
       !.corrections_needed = <<<<"No execution results found">>>>,
       !.messages = Append(s.messages,
           Message("validator", <<"Validation failed: No results to validate">>))]

\* validate keeping the issue list only of a result that is not valid (what C22
\* rules out)
validate_result_issues_if_invalid(s, v) ==
    LET status == IF v.is_valid THEN "passed" ELSE "failed"
    IN  [s EXCEPT
           !.validation_status = Some(status),
           !.corrections_needed = IF v.is_valid THEN <<>> ELSE v.issues,
           !.metadata = DictSet(s.metadata, "validation_confidence", v.confidence),
           !.messages = Append(s.messages,
               Message("validator",
                       <<"Validation ", status, " ", IF v.is_valid THEN "ok" ELSE "x",
                         " (confidence: ", v.confidence, "). Issues found: ",
                         ToString(Len(v.issues))>>))]

\* validate replacing the metadata mapping by one that holds only the confidence
\* (what C27 rules out)
validate_result_fresh_metadata(s, v) ==
    LET status == IF v.is_valid THEN "passed" ELSE "failed"
    IN  [s EXCEPT
           !.validation_status = Some(status),
           !.corrections_needed = v.issues,
           !.metadata = DictSet(EmptyDict, "validation_confidence", v.confidence),
           !.messages = Append(s.messages,
               Message("validator",
                       <<"Validation ", status, " ", IF v.is_valid THEN "ok" ELSE "x",
                         " (confidence: ", v.confidence, "). Issues found: ",
                         ToString(Len(v.issues))>>))]

\* lines 155-169
validate_result(s, v) ==
    LET status == IF v.is_valid THEN "passed" ELSE "failed"
    IN  [s EXCEPT
           !.validation_status = Some(status),
           !.corrections_needed = v.issues,
           !.metadata = DictSet(s.metadata, "validation_confidence", v.confidence),
           !.messages = Append(s.messages,
               Message("validator",
                       <<"Validation ", status, " ", IF v.is_valid THEN "ok" ELSE "x",
                         " (confidence: ", v.confidence, "). Issues found: ",
                         ToString(Len(v.issues))>>))]

\* validate reporting the oracle's failure under a status of its own, which the
\* router does not send to the corrector (what C13 rules out)
validate_error_status(s, e) ==
    [s EXCEPT
       !.validation_status = Some("error"),
       !.corrections_needed = <<<<"Validation error: ">> \o e>>,
       !.messages = Append(s.messages,
           Message("validator", <<"Validation failed with error: ">> \o e))]

\* lines 171-178
validate_error(s, e) ==
    [s EXCEPT
       !.validation_status = Some("failed"),
       !.corrections_needed = <<<<"Validation error: ">> \o e>>,
       !.messages = Append(s.messages,
           Message("validator", <<"Validation failed with error: ">> \o e))]

validate_call(s, reply) ==
    Call("validator", <<original_query(s), combined_output(s.execution_results)>>, reply)

ValidateNoResults ==
    /\ pc = <<"validator">>
    /\ no_results(state)
    /\ state' = validate_no_results(state)
    /\ pc' = Return("validator")
    /\ UNCHANGED <<caller, ex, calls, trace, user_input, result, runs, tools,
                   exec_tools, max_messages, stm, stm_added, embed, ltm, ltm_op, env, reg_log>>

ValidateOracle(v) ==
    /\ pc = <<"validator">>
    /\ ~no_results(state)
    /\ calls' = Append(calls, validate_call(state, Ok(v)))
    /\ state' = validate_result(state, v)
    /\ pc' = Return("validator")
    /\ UNCHANGED <<caller, ex, trace, user_input, result, runs, tools,
                   exec_tools, max_messages, stm, stm_added, embed, ltm, ltm_op, env, reg_log>>

ValidateOracleError(e) ==
    /\ pc = <<"validator">>
    /\ ~no_results(state)
    /\ calls' = Append(calls, validate_call(state, Raised(e)))
    /\ state' = validate_error(state, e)
    /\ pc' = Return("validator")
    /\ UNCHANGED <<caller, ex, trace, user_input, result, runs, tools,
                   exec_tools, max_messages, stm, stm_added, embed, ltm, ltm_op, env, reg_log>>

-----------------------------------------------------------------------------
(* CorrectorAgent.correct *)

\* the join taken over the values in reverse order (what C6 rules out)
joined_results_reversed(results) ==
    Join(<<"\n", "\n">>, [k \in 1..Len(results) |-> results[Len(results) + 1 - k]])

\* "\n\n".join(str(v) for v in results.values())
joined_results(results) == Join(<<"\n", "\n">>, results)

\* correct marking the state as passed when it finds nothing to correct (what
\* C35 rules out)
correct_nothing_marks_passed(s) ==
    [s EXCEPT
       !.validation_status = Some("passed"),
       !.final_output = Some(joined_results(s.execution_results)),
       !.messages = Append(s.messages,
           Message("corrector", <<"No corrections needed - output is good!">>))]

\* lines 127-136
correct_nothing(s) ==
    [s EXCEPT
       !.final_output = Some(joined_results(s.execution_results)),
       !.messages = Append(s.messages,
           Message("corrector", <<"No corrections needed - output is good!">>))]

\* lines 150-154: what is sent to the oracle
correct_call(s, reply) ==
    Call("corrector", <<Join(<<"\n", "- ">>, s.corrections_needed),
                        joined_results(s.execution_results),
                        original_query(s)>>, reply)

\* correct keeping the uncorrected output instead of the oracle's text (what
\* C7 rules out)
correct_result_keep(s, text) ==
    [s EXCEPT
       !.final_output = Some(joined_results(s.execution_results)),
       !.messages = Append(s.messages,
           Message("corrector",
                   <<"Applied corrections to address ",
                     ToString(Len(s.corrections_needed)), " issues">>))]

\* lines 156-166
correct_result(s, text) ==
    [s EXCEPT
       !.final_output = Some(text),
       !.messages = Append(s.messages,
           Message("corrector",
                   <<"Applied corrections to address ",
                     ToString(Len(s.corrections_needed)), " issues">>))]

\* correct giving only the failure notice, without the output it could not
\* revise (what C14 rules out)
correct_error_notice_only(s, e) ==
    [s EXCEPT
       !.final_output = Some(<<"[Correction failed: ">> \o e \o <<"]">>),
       !.messages = Append(s.messages,
           Message("corrector", <<"Correction failed: ">> \o e))]

\* lines 168-177
correct_error(s, e) ==
    [s EXCEPT
       !.final_output = Some(<<"[Correction failed: ">> \o e \o <<"]", "\n", "\n",
                                "Original output:", "\n">> \o
                             joined_results(s.execution_results)),
       !.messages = Append(s.messages,
           Message("corrector", <<"Correction failed: ">> \o e))]

CorrectNothing ==
    /\ pc = <<"corrector">>
    /\ state.corrections_needed = <<>>
    /\ state' = correct_nothing(state)
    /\ pc' = Return("corrector")
    /\ UNCHANGED <<caller, ex, calls, trace, user_input, result, runs, tools,
                   exec_tools, max_messages, stm, stm_added, embed, ltm, ltm_op, env, reg_log>>

CorrectOracle(text) ==
    /\ pc = <<"corrector">>
    /\ state.corrections_needed # <<>>
    /\ calls' = Append(calls, correct_call(state, Ok(text)))
    /\ state' = correct_result(state, text)
    /\ pc' = Return("corrector")
    /\ UNCHANGED <<caller, ex, trace, user_input, result, runs, tools,
                   exec_tools, max_messages, stm, stm_added, embed, ltm, ltm_op, env, reg_log>>

CorrectOracleError(e) ==
    /\ pc = <<"corrector">>
    /\ state.corrections_needed # <<>>
    /\ calls' = Append(calls, correct_call(state, Raised(e)))
    /\ state' = correct_error(state, e)
    /\ pc' = Return("corrector")
    /\ UNCHANGED <<caller, ex, trace, user_input, result, runs, tools,
                   exec_tools, max_messages, stm, stm_added, embed, ltm, ltm_op, env, reg_log>>

-----------------------------------------------------------------------------
(* The facade: MultiAgentSystem() and its runs *)

registry_default == [n \in ToolNames |-> n]

\* ToolRegistry.get_all_tools: list(self.tools.values()), in insertion order
get_all_tools ==
    <<"analyze_data", "generate_forecast", "validate_output", "fetch_external_data">>

Init ==
    /\ pc = <<"idle">>
    /\ caller = "graph"
    /\ state = initial_state(<<>>)
    /\ ex = ExIdle
    /\ calls = <<>>
    /\ trace = <<>>
    /\ user_input = <<>>
    /\ result = None
    /\ runs = 0
    /\ tools = registry_default
    /\ exec_tools = get_all_tools
    /\ max_messages = max_messages_default
    /\ stm = <<>>
    /\ stm_added = <<>>
    /\ embed = EmptyDict
    /\ ltm = EmptyDict
    /\ ltm_op = LtmIdle
    /\ env = ConfiguredEnv
    /\ reg_log = <<>>

StageSteps(plans, texts) ==
    \/ \E p \in plans : PlannerPlan(p)
    \/ \E e \in ErrorTexts : PlannerFail(e)
    \/ ExecuteEnter
    \/ \E t \in texts : LoopFinish(t)
    \/ \E e \in ErrorTexts : LoopOracleError(e)
    \/ LoopParseError
    \/ \E n \in ToolNames \cup {"no_such_tool"}, r \in BOOLEAN, e \in ErrorTexts :
          LoopToolCall(n, r, e)
    \/ LoopExhausted
    \/ ExecuteReturn
    \/ ValidateNoResults
    \/ \E v \in ValidationResults : ValidateOracle(v)
    \/ \E e \in ErrorTexts : ValidateOracleError(e)
    \/ CorrectNothing
    \/ \E t \in CorrectedTexts : CorrectOracle(t)
    \/ \E e \in ErrorTexts : CorrectOracleError(e)

Next ==
    \/ \E q \in RunQueries : runs < MaxRuns /\ Run(q)
    \/ EngineWrites
    \/ RunReturn
    \/ RunRaise
    \/ StageSteps(RunTaskPlans, RunResultTexts)

Spec == Init /\ [][Next]_vars

\* the steps of a run that was started: the code going on, an oracle call or a
\* tool invocation returning or failing
RunSteps ==
    \/ EngineWrites
    \/ RunReturn
    \/ RunRaise
    \/ StageSteps(RunTaskPlans, RunResultTexts)

\* run(q) has just been called on a system that was constructed (Run taken
\* from Init)
InitLive ==
    /\ \E q \in RunQueries : user_input = q /\ state = initial_state(q)
    /\ pc = <<"planner">>
    /\ trace = <<"planner">>
    /\ runs = 1
    /\ caller = "graph"
    /\ ex = ExIdle
    /\ calls = <<>>
    /\ result = None
    /\ tools = registry_default
    /\ exec_tools = get_all_tools
    /\ max_messages = max_messages_default
    /\ stm = <<>>
    /\ stm_added = <<>>
    /\ embed = EmptyDict
    /\ ltm = EmptyDict
    /\ ltm_op = LtmIdle
    /\ env = ConfiguredEnv
    /\ reg_log = <<>>

\* One invocation of run, with every oracle call and tool invocation returning
\* or failing in finite time: a run that can take a step eventually takes one
SpecLive == InitLive /\ [][RunSteps]_vars /\ WF_vars(RunSteps)

-----------------------------------------------------------------------------
(* SpecConfig: MultiAgentSystem() under any settings, then its runs *)

\* MultiAgentSystem.__init__: create_llm first; when it raises nothing is built
Construct ==
    /\ pc = <<"new">>
    /\ LET llm == create_llm(env)
       IN  IF llm[1] = "raised"
           THEN /\ pc' = <<"failed">>
                /\ result' = <<"raised", llm[2], "__init__">>
                /\ UNCHANGED <<tools, exec_tools, max_messages>>
           ELSE /\ pc' = <<"idle">>
                /\ result' = None
                /\ tools' = registry_default
                /\ exec_tools' = get_all_tools
                /\ max_messages' = max_messages_default
    /\ UNCHANGED <<caller, state, ex, calls, trace, user_input, runs, stm, stm_added,
                   embed, ltm, ltm_op, env, reg_log>>

\* the runs tried on a constructed system: at most one subtask, one non-blank
\* answer
ConfigTaskPlans ==
    [subtasks : {<<>>, SubSeq(PlanPool, 1, 1)},
     estimated_complexity : Complexities,
     required_tools : {<<"analyze_data">>}]
ConfigResultTexts == {<<"r">>}

InitConfig ==
    /\ pc = <<"new">>
    /\ env \in Envs
    /\ reg_log = <<>>
    /\ caller = "graph"
    /\ state = initial_state(<<>>)
    /\ ex = ExIdle
    /\ calls = <<>>
    /\ trace = <<>>
    /\ user_input = <<>>
    /\ result = None
    /\ runs = 0
    /\ tools = EmptyDict
    /\ exec_tools = <<>>
    /\ max_messages = 0
    /\ stm = <<>>
    /\ stm_added = <<>>
    /\ embed = EmptyDict
    /\ ltm = EmptyDict
    /\ ltm_op = LtmIdle

NextConfig ==
    \/ Construct
    \/ \E q \in RunQueries : runs < MaxRuns /\ Run(q)
    \/ EngineWrites
    \/ RunReturn
    \/ RunRaise
    \/ StageSteps(ConfigTaskPlans, ConfigResultTexts)

SpecConfig == InitConfig /\ [][NextConfig]_vars

-----------------------------------------------------------------------------
(* SpecRuns: several run() calls, with different queries, on one system *)

NextRuns ==
    \/ \E q \in Queries : runs < MaxRepeat /\ Run(q)
    \/ EngineWrites
    \/ RunReturn
    \/ RunRaise
    \/ StageSteps(ConfigTaskPlans, ConfigResultTexts)

SpecRuns == Init /\ [][NextRuns]_vars

-----------------------------------------------------------------------------
(* ToolRegistry: get_tool, add_tool, remove_tool *)

RegNames == {"analyze_data", "my_tool"}
RegTools == {"tool_v1", "tool_v2"}

\* del d[k]
DictDel(d, k) == [x \in DOMAIN d \ {k} |-> d[x]]

\* self.tools.get(name)
get_tool(reg, name) == IF name \in DOMAIN reg THEN Some(reg[name]) ELSE None

\* add_tool keeping the tool already registered under the name, as setdefault
\* would (what C36 rules out)
add_tool_keep_first(reg, name, tool) ==
    IF name \in DOMAIN reg THEN reg ELSE DictSet(reg, name, tool)

\* self.tools[name] = tool
add_tool(reg, name, tool) == DictSet(reg, name, tool)

\* remove_tool: the registry after the call and the value returned
remove_tool(reg, name) ==
    IF name \in DOMAIN reg
    THEN [tools |-> DictDel(reg, name), ret |-> TRUE]
    ELSE [tools |-> reg, ret |-> FALSE]

RegOp(op, name, tool, ret) == [op |-> op, name |-> name, tool |-> tool, ret |-> ret]

\* registry.add_tool(name, tool), called while no run is in flight
AddTool(name, tool) ==
    /\ pc = <<"idle">> \/ pc = <<"registry">>
    /\ tools' = add_tool(tools, name, tool)
    /\ reg_log' = Append(reg_log, RegOp("add", name, tool, None))
    /\ UNCHANGED <<pc, caller, state, ex, calls, trace, user_input, result, runs,
                   exec_tools, max_messages, stm, stm_added, embed, ltm, ltm_op, env>>

\* registry.remove_tool(name), called while no run is in flight
RemoveTool(name) ==
    /\ pc = <<"idle">> \/ pc = <<"registry">>
    /\ LET r == remove_tool(tools, name)
       IN  /\ tools' = r.tools
           /\ reg_log' = Append(reg_log, RegOp("remove", name, None, r.ret))
    /\ UNCHANGED <<pc, caller, state, ex, calls, trace, user_input, result, runs,
                   exec_tools, max_messages, stm, stm_added, embed, ltm, ltm_op, env>>

-----------------------------------------------------------------------------
(* SpecRegistry: ToolRegistry() driven directly *)

InitRegistry ==
    /\ pc = <<"registry">>
    /\ caller = "direct"
    /\ state = initial_state(<<>>)
    /\ ex = ExIdle
    /\ calls = <<>>
    /\ trace = <<>>
    /\ user_input = <<>>
    /\ result = None
    /\ runs = 0
    /\ tools = registry_default
    /\ exec_tools = get_all_tools
    /\ max_messages = max_messages_default
    /\ stm = <<>>
    /\ stm_added = <<>>
    /\ embed = EmptyDict
    /\ ltm = EmptyDict
    /\ ltm_op = LtmIdle
    /\ env = ConfiguredEnv
    /\ reg_log = <<>>

NextRegistry ==
    \/ \E n \in RegNames, t \in RegTools : Len(reg_log) < MaxRegOps /\ AddTool(n, t)
    \/ \E n \in RegNames : Len(reg_log) < MaxRegOps /\ RemoveTool(n)

SpecRegistry == InitRegistry /\ [][NextRegistry]_vars

-----------------------------------------------------------------------------
(* SpecTools: a system whose registry is changed between its runs *)

NextTools ==
    \/ Len(reg_log) < MaxToolChanges /\ AddTool("my_tool", "tool_v1")
    \/ Len(reg_log) < MaxToolChanges /\ RemoveTool("analyze_data")
    \/ \E q \in RunQueries : runs < MaxRepeat /\ Run(q)
    \/ EngineWrites
    \/ RunReturn
    \/ RunRaise
    \/ StageSteps(ConfigTaskPlans, ConfigResultTexts)

SpecTools == Init /\ [][NextTools]_vars

-----------------------------------------------------------------------------
(* SpecStage: a stage function, or the router, called directly on a state *)

ExtraMeta == DictSet(EmptyDict, "caller_key", "kept")

InputMessages ==
    {<<Message("user", q)>> : q \in Queries} \cup
    {<<Message("user", <<"q1">>), Message("user", <<"q2">>)>>}

InputResults == SeqsUpTo({<<>>, <<" ">>, <<"r">>}, 2)

\* the states handed to plan, validate, correct and the router
StageStates ==
    [messages : InputMessages,
     current_plan : {None, Some(<<<<"Load X">>>>)},
     execution_results : InputResults,
     validation_status : {Absent, None, Some("passed"), Some("failed")},
     corrections_needed : SeqsUpTo(IssueTexts, MaxIssues),
     final_output : {None},
     metadata : {EmptyDict, ExtraMeta}]

\* the states handed to execute
ExecuteStates ==
    [messages : {<<Message("user", <<"q1">>)>>},
     current_plan : {Absent, None} \cup {Some(p) : p \in SeqsUpTo(Subtasks, MaxSubtasks)},
     execution_results : {<<>>, <<<<"old">>>>},
     validation_status : {None, Some("failed")},
     corrections_needed : {<<>>},
     final_output : {None},
     metadata : {EmptyDict, ExtraMeta}]

\* should_correct called on a state, and the branch map applied to its key
Route ==
    /\ pc = <<"router">>
    /\ result' = <<"next", BranchTarget(should_correct(state))>>
    /\ pc' = <<"router", "returned">>
    /\ UNCHANGED <<caller, state, ex, calls, trace, user_input, runs, tools, exec_tools,
                   max_messages, stm, stm_added, embed, ltm, ltm_op, env, reg_log>>

InitStage ==
    /\ \/ pc \in {<<"planner">>, <<"validator">>, <<"corrector">>, <<"router">>}
          /\ state \in StageStates
       \/ pc = <<"executor">> /\ state \in ExecuteStates
    /\ caller = "direct"
    /\ ex = ExIdle
    /\ calls = <<>>
    /\ trace = <<>>
    /\ user_input = <<>>
    /\ result = None
    /\ runs = 0
    /\ tools = registry_default
    /\ exec_tools = get_all_tools
    /\ max_messages = max_messages_default
    /\ stm = <<>>
    /\ stm_added = <<>>
    /\ embed = EmptyDict
    /\ ltm = EmptyDict
    /\ ltm_op = LtmIdle
    /\ env = ConfiguredEnv
    /\ reg_log = <<>>

NextStage == StageSteps(TaskPlans, ResultTexts) \/ Route

SpecStage == InitStage /\ [][NextStage]_vars

-----------------------------------------------------------------------------
(* SpecSTM: ShortTermMemory(max_messages) driven directly *)

StmContents == {Some(<<"a">>), Some(<<"b">>)}
StmRoles == {"user", "assistant"}

StmAdd(role, content) ==
    /\ pc = <<"stm">>
    /\ Len(stm_added) < MaxAdds
    /\ stm' = add_message(stm, max_messages, role, content)
    /\ stm_added' = Append(stm_added, Message(role, content))
    /\ UNCHANGED <<pc, caller, state, ex, calls, trace, user_input, result, runs, tools,
                   exec_tools, max_messages, embed, ltm, ltm_op, env, reg_log>>

\* ShortTermMemory.clear
StmClear ==
    /\ pc = <<"stm">>
    /\ stm' = <<>>
    /\ stm_added' = <<>>
    /\ UNCHANGED <<pc, caller, state, ex, calls, trace, user_input, result, runs, tools,
                   exec_tools, max_messages, embed, ltm, ltm_op, env, reg_log>>

InitSTM ==
    /\ pc = <<"stm">>
    /\ max_messages \in 0..MaxCap
    /\ stm = <<>>
    /\ stm_added = <<>>
    /\ caller = "direct"
    /\ state = initial_state(<<>>)
    /\ ex = ExIdle
    /\ calls = <<>>
    /\ trace = <<>>
    /\ user_input = <<>>
    /\ result = None
    /\ runs = 0
    /\ tools = registry_default
    /\ exec_tools = get_all_tools
    /\ embed = EmptyDict
    /\ ltm = EmptyDict
    /\ ltm_op = LtmIdle
    /\ env = ConfiguredEnv
    /\ reg_log = <<>>

NextSTM ==
    \/ \E r \in StmRoles, c \in StmContents : StmAdd(r, c)
    \/ StmClear

SpecSTM == InitSTM /\ [][NextSTM]_vars

-----------------------------------------------------------------------------
(* SpecLTM: LongTermMemory driven directly.  The embedding model is the one
   EMBEDDINGS_MODEL names: any function from text to vectors.  The vector
   store answers a similarity search with the k nearest documents, nearest
   first, in any order among documents at the same distance. *)

LtmKeys == {"k1", "k2"}
LtmTexts == {<<"a">>, <<"b">>, <<"c">>}
Vecs == {0, 1}

Dist(u, v) == IF u < v THEN v - u ELSE u - v

Min(a, b) == IF a < b THEN a ELSE b

\* store that leaves an existing id as it is instead of replacing its text
\* (what C10 rules out)
ltm_store_insert_only(store, key, value) ==
    IF key \in DOMAIN store THEN store ELSE DictSet(store, key, value)

\* LongTermMemory.store: add_texts(texts=[value], ids=[key]) puts value under id key
ltm_store(store, key, value) == DictSet(store, key, value)

\* LongTermMemory.delete
ltm_delete(store, key) == [x \in DOMAIN store \ {key} |-> store[x]]

\* LongTermMemory.retrieve: the lists similarity_search(query, k) may return,
\* as page contents
ltm_retrieve(store, emb, query, k) ==
    LET ids == DOMAIN store
        n == Min(k, Cardinality(ids))
        d(id) == Dist(emb[store[id]], emb[query])
        picks == {p \in [1..n -> ids] :
                    /\ \A i, j \in 1..n : i # j => p[i] # p[j]
                    /\ \A i, j \in 1..n : i < j => d(p[i]) <= d(p[j])
                    /\ \A id \in ids : (\A i \in 1..n : p[i] # id) =>
                                           \A i \in 1..n : d(p[i]) <= d(id)}
    IN  {[i \in 1..n |-> store[p[i]]] : p \in picks}

LtmStore(key, value) ==
    /\ pc = <<"ltm">>
    /\ ltm' = ltm_store(ltm, key, value)
    /\ ltm_op' = LtmOp("store", value, <<>>, 0, <<>>, None)
    /\ UNCHANGED <<pc, caller, state, ex, calls, trace, user_input, result, runs, tools,
                   exec_tools, max_messages, stm, stm_added, embed, env, reg_log>>

\* prev: the value of the store that came immediately before, if one did
LtmRetrieve(query, k) ==
    /\ pc = <<"ltm">>
    /\ \E res \in ltm_retrieve(ltm, embed, query, k) :
          ltm_op' = LtmOp("retrieve", <<>>, query, k, res,
                          IF ltm_op.op = "store" THEN Some(ltm_op.value) ELSE None)
    /\ UNCHANGED <<pc, caller, state, ex, calls, trace, user_input, result, runs, tools,
                   exec_tools, max_messages, stm, stm_added, embed, ltm, env, reg_log>>

LtmDelete(key) ==
    /\ pc = <<"ltm">>
    /\ ltm' = ltm_delete(ltm, key)
    /\ ltm_op' = LtmOp("delete", <<>>, <<>>, 0, <<>>, None)
    /\ UNCHANGED <<pc, caller, state, ex, calls, trace, user_input, result, runs, tools,
                   exec_tools, max_messages, stm, stm_added, embed, env, reg_log>>

InitLTM ==
    /\ pc = <<"ltm">>
    /\ embed \in [LtmTexts -> Vecs]
    /\ ltm = EmptyDict
    /\ ltm_op = LtmIdle
    /\ env = ConfiguredEnv
    /\ reg_log = <<>>
    /\ max_messages = max_messages_default
    /\ stm = <<>>
    /\ stm_added = <<>>
    /\ caller = "direct"
    /\ state = initial_state(<<>>)
    /\ ex = ExIdle
    /\ calls = <<>>
    /\ trace = <<>>
    /\ user_input = <<>>
    /\ result = None
    /\ runs = 0
    /\ tools = registry_default
    /\ exec_tools = get_all_tools

NextLTM ==
    \/ \E key \in LtmKeys, value \in LtmTexts : LtmStore(key, value)
    \/ \E query \in LtmTexts, k \in 1..MaxK : LtmRetrieve(query, k)
    \/ \E key \in LtmKeys : LtmDelete(key)

SpecLTM == InitLTM /\ [][NextLTM]_vars

-----------------------------------------------------------------------------
(* Properties *)

IsPrefix(a, b) == Len(a) <= Len(b) /\ SubSeq(b, 1, Len(a)) = a
InSeq(x, q) == \E k \in 1..Len(q) : q[k] = x
Occurrences(x, q) == Cardinality({k \in 1..Len(q) : q[k] = x})
CallsOf(agent) == Cardinality({k \in 1..Len(calls) : calls[k].agent = agent})

\* the texts r[k], r[k+1], ... separated by a blank line
RECURSIVE ConcatFrom(_, _)
ConcatFrom(r, k) ==
    IF k > Len(r) THEN <<>>
    ELSE (IF k > 1 THEN <<"\n", "\n">> ELSE <<>>) \o r[k] \o ConcatFrom(r, k + 1)
ConcatBlankLine(r) == ConcatFrom(r, 1)

Canon == <<"planner", "executor", "validator", "router", "corrector">>
Nodes == {"planner", "executor", "validator", "corrector"}

Returned(node) == pc = <<node, "writes">> \/ pc = <<node, "returned">>

\* C1: in a run where Validate set validation_status to passed, Correct is never
\* invoked and the output run returns is the concatenation of the execution
\* results in subtask order.
C1_PassedOutputIsConcatenation ==
    (IsSome(result) /\ state.validation_status = Some("passed")) =>
        /\ ~InSeq("corrector", trace)
        /\ Get(result).output = Some(ConcatBlankLine(state.execution_results))

\* C2: the router evaluated on any state selects the Correct stage if and only if
\* validation_status is "failed"; for passed, None or a missing key it selects
\* termination.
C2_RouterIffFailed ==
    pc = <<"router", "returned">> =>
        /\ (result = <<"next", "corrector">>) <=> (state.validation_status = Some("failed"))
        /\ (state.validation_status # Some("failed")) => (result = <<"next", "END">>)

C2_Witness ==
    /\ pc = <<"router", "returned">>
    /\ state.validation_status = None
    /\ result = <<"next", "END">>

\* C3: in every invocation of the graph the nodes run in the order planner,
\* executor, validator, then optionally corrector, each at most once, the router
\* at most once, and nothing runs after corrector.
C3_StageOrder ==
    caller = "graph" =>
        /\ IsPrefix(trace, Canon)
        /\ (pc[1] \in Nodes) => (trace # <<>> /\ trace[Len(trace)] = pc[1])
        /\ (pc = <<"END">>) => (Len(trace) >= 4)

C3_Witness == pc = <<"END">> /\ trace = Canon

\* C4: execute called on any state does not raise, and returns one result per
\* subtask of the plan.
C4_ExecuteNeverRaises ==
    /\ pc # <<"executor", "raised">>
    /\ Returned("executor") => Len(state.execution_results) = Len(ex.plan)

AllBlank(results) == \A k \in 1..Len(results) : Strip(results[k]) = <<>>

\* C5: when every value of execution_results is empty or blank (or there is no
\* entry), validate sets validation_status to failed and corrections_needed to
\* exactly ["No execution results found"], appends a validator turn and does not
\* call the oracle.
C5_BlankResultsShortCircuit ==
    (Returned("validator") /\ AllBlank(state.execution_results)) =>
        /\ state.validation_status = Some("failed")
        /\ state.corrections_needed = <<<<"No execution results found">>>>
        /\ state.messages[Len(state.messages)].role = "validator"
        /\ CallsOf("validator") = 0

\* C6: correct called with corrections_needed empty does not call the oracle,
\* sets final_output to the execution results joined by a blank line in subtask
\* order, and appends exactly one corrector turn.
C6_CorrectNoCorrections ==
    [][(pc = <<"corrector">> /\ state.corrections_needed = <<>>) =>
          /\ calls' = calls
          /\ state'.final_output = Some(ConcatBlankLine(state.execution_results))
          /\ Len(state'.messages) = Len(state.messages) + 1
          /\ IsPrefix(state.messages, state'.messages)
          /\ state'.messages[Len(state'.messages)].role = "corrector"]_vars

C6_Witness ==
    /\ pc = <<"corrector", "returned">>
    /\ state.corrections_needed = <<>>
    /\ state.execution_results = <<<<"r">>, <<" ">>>>
    /\ state.final_output = Some(<<"r", "\n", "\n", " ">>)

\* the validation oracle answered: invalid, with a non-empty issue list
ValidatorFoundIssues(log) ==
    /\ log # <<>>
    /\ log[Len(log)].agent = "validator"
    /\ log[Len(log)].reply[1] = "ok"
    /\ ~log[Len(log)].reply[2].is_valid
    /\ log[Len(log)].reply[2].issues # <<>>

\* C7: when the validator reported issues and the correction oracle answers,
\* correct is invoked once, the oracle is sent that issue list, the concatenated
\* execution output and the query given to run, final_output is the text the
\* oracle returned, and one corrector turn reporting the number of issues is
\* appended.
C7_CorrectionApplied ==
    [][(/\ pc = <<"corrector">>
        /\ caller = "graph"
        /\ ValidatorFoundIssues(calls)
        /\ calls' # calls
        /\ calls'[Len(calls')].reply[1] = "ok") =>
          LET issues == calls[Len(calls)].reply[2].issues
              sent == calls'[Len(calls')]
          IN  /\ sent.agent = "corrector"
              /\ sent.input = <<Join(<<"\n", "- ">>, issues),
                                ConcatBlankLine(state.execution_results),
                                user_input>>
              /\ Occurrences("corrector", trace) = 1
              /\ CallsOf("corrector") = 0
              /\ Len(calls') = Len(calls) + 1
              /\ state'.final_output = Some(sent.reply[2])
              /\ state'.messages =
                    Append(state.messages,
                           Message("corrector",
                                   <<"Applied corrections to address ",
                                     ToString(Len(issues)), " issues">>))]_vars

C7_Witness ==
    /\ pc = <<"corrector", "writes">>
    /\ caller = "graph"
    /\ Len(calls) = 3
    /\ ValidatorFoundIssues(SubSeq(calls, 1, 2))
    /\ Len(state.corrections_needed) = 2
    /\ calls[3].reply[1] = "ok"
    /\ state.final_output = Some(calls[3].reply[2])

PlanOracleFailed ==
    calls # <<>> /\ calls[1].agent = "planner" /\ calls[1].reply[1] = "raised"

\* C8: when the planner's oracle call (or its decoding) fails, run raises, no
\* other stage runs and no turn is appended to the state.
C8_PlanFailureIsFatal ==
    (caller = "graph" /\ (PlanOracleFailed \/ result = <<"raised">>)) =>
        /\ PlanOracleFailed
        /\ pc = <<"planner", "raised">> \/ (pc = <<"idle">> /\ result = <<"raised">>)
        /\ trace = <<"planner">>
        /\ state.messages = <<Message("user", user_input)>>
        /\ Len(calls) = 1

C8_Witness == result = <<"raised">> /\ PlanOracleFailed

\* C9: with capacity c >= 1, once more than c messages were added the history
\* holds exactly the c most recently added ones, oldest first.
C9_KeepsMostRecent ==
    (max_messages >= 1 /\ Len(stm_added) > max_messages) =>
        stm = SubSeq(stm_added, Len(stm_added) - max_messages + 1, Len(stm_added))

C9_Witness ==
    /\ max_messages = 2
    /\ Len(stm_added) = 4
    /\ stm_added[1] # stm_added[3]
    /\ stm = SubSeq(stm_added, 3, 4)

RetrievedAfterStore ==
    ltm_op.op = "retrieve" /\ ltm_op.prev = Some(ltm_op.query)

\* C10 as stated: after store(key, value), an immediately following retrieve with
\* query = value and any k >= 1 returns a list that contains value.
C10_RoundTrip ==
    RetrievedAfterStore => InSeq(ltm_op.query, ltm_op.res)

\* the stored entries that hold another text with the same embedding as t
EquallyNear(t) == {id \in DOMAIN ltm : ltm[id] # t /\ embed[ltm[id]] = embed[t]}

\* C10 as amended: the list contains value provided fewer than k stored entries
\* hold a different text whose embedding equals that of value.
C10_RoundTripNoTies ==
    (RetrievedAfterStore /\ Cardinality(EquallyNear(ltm_op.query)) < ltm_op.k) =>
        InSeq(ltm_op.query, ltm_op.res)

C10_Witness ==
    /\ RetrievedAfterStore
    /\ ltm_op.k = 1
    /\ Cardinality(DOMAIN ltm) = 2
    /\ \E id \in DOMAIN ltm : ltm[id] # ltm_op.query
    /\ ltm_op.res = <<ltm_op.query>>

IsSuffix(a, b) == Len(a) <= Len(b) /\ SubSeq(b, Len(b) - Len(a) + 1, Len(b)) = a
Roles(ms) == [k \in 1..Len(ms) |-> ms[k].role]
LastCall(log) == log[Len(log)]

\* C11: every run that returns (one that did not fail in planning) returns a
\* final output that is a text, whether validation passed or failed.
C11_FinalOutputPresent ==
    IsSome(result) => IsSome(Get(result).output)

\* C12: the turns run returns are the user turn followed by exactly one turn per
\* stage that ran, in the order the stages ran.
C12_TurnsInStageOrder ==
    IsSome(result) =>
        /\ Get(result).messages[1] = Message("user", user_input)
        /\ Roles(Get(result).messages) =
              <<"user">> \o SelectSeq(trace, LAMBDA n : n # "router")

\* C13: when the validation oracle call fails, validate does not raise, sets
\* validation_status to failed and corrections_needed to the single issue
\* describing the error, appends exactly one validator turn, and the graph goes
\* on to the corrector.
C13_ValidateOracleFailure ==
    [][/\ (/\ pc = <<"validator">>
           /\ calls' # calls
           /\ LastCall(calls').reply[1] = "raised") =>
             LET e == LastCall(calls').reply[2]
             IN  /\ pc' = <<"validator", "writes">>
                 /\ state'.validation_status = Some("failed")
                 /\ state'.corrections_needed = <<<<"Validation error: ">> \o e>>
                 /\ Len(state'.messages) = Len(state.messages) + 1
                 /\ IsPrefix(state.messages, state'.messages)
                 /\ LastCall(state'.messages).role = "validator"
       /\ (/\ pc = <<"validator", "writes">>
           /\ calls # <<>>
           /\ LastCall(calls).agent = "validator"
           /\ LastCall(calls).reply[1] = "raised") => pc' = <<"corrector">>]_vars

C13_Witness ==
    /\ pc = <<"corrector">>
    /\ caller = "graph"
    /\ LastCall(calls).agent = "validator"
    /\ LastCall(calls).reply = Raised(<<"boom">>)
    /\ state.corrections_needed = <<<<"Validation error: ", "boom">>>>

\* C14: when the correction oracle call fails, correct does not raise,
\* final_output is a notice that starts with the failure marker and the error and
\* ends with the unrevised execution results joined by a blank line, and exactly
\* one corrector turn is appended.
C14_CorrectOracleFailure ==
    [][(/\ pc = <<"corrector">>
        /\ calls' # calls
        /\ LastCall(calls').reply[1] = "raised") =>
          LET e == LastCall(calls').reply[2]
              out == ConcatBlankLine(state.execution_results)
              notice == <<"[Correction failed: ">> \o e
          IN  /\ pc' = <<"corrector", "writes">> \/ pc' = <<"corrector", "returned">>
              /\ IsSome(state'.final_output)
              /\ IsPrefix(notice, Get(state'.final_output))
              /\ IsSuffix(out, Get(state'.final_output))
              /\ Len(Get(state'.final_output)) >= Len(notice) + Len(out)
              /\ state'.execution_results = state.execution_results
              /\ Len(state'.messages) = Len(state.messages) + 1
              /\ IsPrefix(state.messages, state'.messages)
              /\ LastCall(state'.messages).role = "corrector"]_vars

C14_Witness ==
    /\ pc = <<"corrector", "returned">>
    /\ calls # <<>>
    /\ LastCall(calls).reply = Raised(<<"boom">>)
    /\ state.execution_results = <<<<"r">>, <<" ">>>>
    /\ state.final_output = Some(<<"[Correction failed: ", "boom", "]", "\n", "\n",
                                   "Original output:", "\n", "r", "\n", "\n", " ">>)

\* C15: when the tool loop of a subtask reaches max_iterations without a final
\* answer, execute does not raise, records a result that starts with ERROR for
\* that subtask (so it is not counted as successful) and goes on to the next one.
C15_CapGivesErrorResult ==
    [][(InLoop /\ ex.iterations = max_iterations /\ ex' # ex) =>
          /\ pc' = pc
          /\ ex'.i = ex.i + 1
          /\ Len(ex'.results) = ex'.i
          /\ StartsWithERROR(ex'.results[ex'.i])
          /\ successful_count(ex'.results) = successful_count(ex.results)]_vars

\* C16: in every state of a run, corrections_needed is empty if and only if
\* validation_status is passed or unset.
C16_CorrectionsEmptyIffPassedOrUnset ==
    (caller = "graph" /\ runs > 0) =>
        ((state.corrections_needed = <<>>) <=>
            (state.validation_status \in {None, Some("passed")}))

\* the entry execute records for an invoke that ended as `last`
EntryFor(last) == IF last[1] = "ok" THEN last[2] ELSE <<"ERROR", ": ">> \o last[2]

\* C17: execute records one entry per subtask, in plan order: the loop's output
\* when invoke returned, "ERROR: " and the message when it raised; a recorded
\* entry is never changed or dropped by a later subtask, and what execute
\* returns holds exactly one entry for each subtask of the plan.
C17_OneResultPerSubtask ==
    [][/\ (pc = <<"executor">> /\ ex.at = "enter" /\ pc' = pc) =>
             (ex'.i = 0 /\ ex'.results = <<>>)
       /\ (pc = <<"executor">> /\ ex.at = "loop") =>
             \/ (pc' = pc /\ ex'.i = ex.i /\ ex'.results = ex.results /\ ex'.plan = ex.plan)
             \/ /\ pc' = pc /\ ex.i < Len(ex.plan) /\ ex'.i = ex.i + 1 /\ ex'.plan = ex.plan
                /\ ex'.results = Append(ex.results, EntryFor(ex'.last))
             \/ /\ ex.i = Len(ex.plan)
                /\ Len(ex.results) = Len(ex.plan)
                /\ pc' = <<"executor", "writes">> \/ pc' = <<"executor", "returned">>
                /\ state'.execution_results = ex.results]_vars

C17_Witness ==
    /\ pc = <<"executor", "returned">>
    /\ Len(ex.plan) = 2
    /\ state.execution_results = <<<<"ERROR", ": ", "boom">>, <<"r">>>>

\* C18: Short-Term Memory changes only in the step in which run returns, after
\* the graph has ended, and that step appends exactly a user record holding the
\* query followed by an assistant record holding the output run returns.
C18_MemoryWrittenAfterGraph ==
    [][/\ (stm' # stm \/ stm_added' # stm_added) => (pc = <<"END">> /\ caller = "graph")
       /\ pc = <<"END">> =>
             /\ IsSome(result')
             /\ stm' = stm \o <<Message("user", Some(user_input)),
                               Message("assistant", Get(result').output)>>]_vars

C18_Witness ==
    /\ pc = <<"idle">>
    /\ IsSome(result)
    /\ stm = <<Message("user", Some(<<"q1">>)), Message("assistant", Some(<<"fixed">>))>>

KnownProviders == {"groq", "together", "huggingface", "ollama"}
UnknownProvider == provider(env) \notin KnownProviders
MissingCredential ==
    \/ provider(env) = "groq" /\ env.GROQ_API_KEY \in {Absent, Some("")}
    \/ provider(env) = "together" /\ env.TOGETHER_API_KEY \in {Absent, Some("")}
    \/ provider(env) = "huggingface" /\ env.HUGGINGFACE_API_KEY \in {Absent, Some("")}

\* C19: with an unknown provider or a missing credential the constructor raises:
\* the system is never constructed, no run starts, and the only error reported
\* is the one raised by the constructor, never one raised by run.
C19_ConfigErrorAtConstruction ==
    (UnknownProvider \/ MissingCredential) =>
        /\ pc \in {<<"new">>, <<"failed">>}
        /\ runs = 0
        /\ calls = <<>>
        /\ result # <<"raised">>
        /\ pc = <<"failed">> =>
              (Len(result) = 3 /\ result[1] = "raised" /\ result[3] = "__init__")

C19_Witness ==
    /\ pc = <<"failed">>
    /\ env.LLM_PROVIDER = Some("GROQ")
    /\ env.GROQ_API_KEY = Some("")
    /\ env.importable
    /\ result = <<"raised", "ValueError", "__init__">>

\* C20: every run that was started eventually ends: run returns a result record,
\* or raises because the planner's oracle call failed.
C20_RunTerminates ==
    (pc # <<"idle">>) ~>
        (pc = <<"idle">> /\ (IsSome(result) \/ (result = <<"raised">> /\ PlanOracleFailed)))

C20_Witness ==
    /\ pc = <<"idle">>
    /\ IsSome(result)
    /\ InSeq(StoppedText, state.execution_results)
    /\ InSeq("corrector", trace)

\* C21: the tool loop of a subtask consults the oracle at most 10 times: every
\* iteration that does not end the subtask is counted, an iteration starts only
\* while fewer than 10 were counted, and once 10 were counted the only step
\* left ends the subtask.
C21_LoopCapped ==
    [][(InLoop /\ ex' # ex) =>
          /\ ex.iterations <= 10
          /\ ex'.i = ex.i => (ex.iterations < 10 /\ ex'.iterations = ex.iterations + 1)
          /\ ex.iterations = 10 => (ex'.i = ex.i + 1 /\ ex'.iterations = 0)
          /\ ex'.i # ex.i => (ex'.i = ex.i + 1 /\ ex'.iterations = 0 /\ pc' = pc)]_vars

C21_Witness ==
    /\ InLoop
    /\ ex.iterations = 10
    /\ ex.pad = "tool_output"

\* C29: when the oracle asks for a tool the executor does not hold, the loop does
\* not end the subtask: the miss becomes the latest observation, one more
\* iteration is counted (at most 10), and no result is recorded for it.
C29_UnknownToolIsObservation ==
    [][(InLoop /\ ex' # ex /\ ex'.asked # "" /\ ~IsExecTool(ex'.asked)) =>
          /\ pc' = pc
          /\ ex'.i = ex.i
          /\ ex'.results = ex.results
          /\ ex'.pad = "invalid_tool"
          /\ ex'.iterations = ex.iterations + 1
          /\ ex'.iterations <= 10]_vars

C29_Witness ==
    /\ InLoop
    /\ ex.asked = "no_such_tool"
    /\ ex.pad = "invalid_tool"
    /\ ex.iterations = 10

\* the keys of d other than those in ks are in d2 with the same value
KeptExcept(d, d2, ks) ==
    \A k \in DOMAIN d \ ks : k \in DOMAIN d2 /\ d2[k] = d[k]

\* C22: when the validation oracle returns a result, validate sets
\* validation_status to passed if the result is valid and to failed otherwise,
\* corrections_needed to the result's issues, metadata["validation_confidence"]
\* to its confidence, and appends exactly one validator turn.
C22_ValidateAppliesResult ==
    [][(/\ pc = <<"validator">>
        /\ calls' # calls
        /\ LastCall(calls').reply[1] = "ok") =>
          LET v == LastCall(calls').reply[2]
          IN  /\ pc' = <<"validator", "writes">> \/ pc' = <<"validator", "returned">>
              /\ v.is_valid => state'.validation_status = Some("passed")
              /\ ~v.is_valid => state'.validation_status = Some("failed")
              /\ state'.corrections_needed = v.issues
              /\ "validation_confidence" \in DOMAIN state'.metadata
              /\ state'.metadata["validation_confidence"] = v.confidence
              /\ KeptExcept(state.metadata, state'.metadata, {"validation_confidence"})
              /\ Len(state'.messages) = Len(state.messages) + 1
              /\ IsPrefix(state.messages, state'.messages)
              /\ LastCall(state'.messages).role = "validator"]_vars

C22_Witness ==
    /\ pc = <<"validator", "returned">>
    /\ calls # <<>>
    /\ LastCall(calls).reply[1] = "ok"
    /\ LastCall(calls).reply[2].is_valid
    /\ Len(LastCall(calls).reply[2].issues) = 2
    /\ state.validation_status = Some("passed")
    /\ state.corrections_needed = LastCall(calls).reply[2].issues

\* C23: when the planning oracle returns a plan, plan sets current_plan to its
\* subtasks in order, metadata["required_tools"] and
\* metadata["estimated_complexity"] to its tools and complexity, appends exactly
\* one planner turn, and leaves execution_results, validation_status,
\* corrections_needed and final_output as they were.
C23_PlanWritesAndFrame ==
    [][(/\ pc = <<"planner">>
        /\ calls' # calls
        /\ LastCall(calls').reply[1] = "ok") =>
          LET p == LastCall(calls').reply[2]
          IN  /\ state'.current_plan = Some(p.subtasks)
              /\ {"required_tools", "estimated_complexity"} \subseteq DOMAIN state'.metadata
              /\ state'.metadata["required_tools"] = p.required_tools
              /\ state'.metadata["estimated_complexity"] = p.estimated_complexity
              /\ KeptExcept(state.metadata, state'.metadata,
                            {"required_tools", "estimated_complexity"})
              /\ Len(state'.messages) = Len(state.messages) + 1
              /\ IsPrefix(state.messages, state'.messages)
              /\ LastCall(state'.messages).role = "planner"
              /\ state'.execution_results = state.execution_results
              /\ state'.validation_status = state.validation_status
              /\ state'.corrections_needed = state.corrections_needed
              /\ state'.final_output = state.final_output]_vars

C23_Witness ==
    /\ pc = <<"planner", "returned">>
    /\ state.current_plan = Some(<<<<"Summarize">>, <<"Load X">>>>)
    /\ state.execution_results # <<>>
    /\ state.validation_status = Some("failed")
    /\ "caller_key" \in DOMAIN state.metadata

\* C24: the executor turn reports total = the number of subtasks, failed = the
\* number of subtasks whose invoke raised, and succeeded = total - failed,
\* whatever text the subtasks that succeeded returned.
C24_ExecutorTurnCounts ==
    Returned("executor") =>
        LastCall(state.messages) =
            Message("executor",
                    <<"Completed ", ToString(Len(ex.plan)), " subtasks (",
                      ToString(Len(ex.plan) - ex.failed), " successful, ",
                      ToString(ex.failed), " errors)">>)

\* C25: execute works on one subtask at a time, in plan order: while the loop of
\* subtask i runs, exactly the results of the subtasks before i are recorded,
\* and the loop of subtask i+1 starts, from a fresh scratchpad, in the step that
\* records the result of subtask i.
C25_OneSubtaskAtATime ==
    [][(pc = <<"executor">> /\ ex.at = "loop" /\ ex' # ex /\ pc' = pc) =>
          /\ Len(ex.results) = ex.i
          /\ ex'.plan = ex.plan
          /\ \/ ex'.i = ex.i /\ ex'.results = ex.results
             \/ /\ ex'.i = ex.i + 1
                /\ Len(ex'.results) = ex'.i
                /\ IsPrefix(ex.results, ex'.results)
                /\ ex'.iterations = 0
                /\ ex'.pad = PadIdle
                /\ ex'.asked = ""]_vars

C25_Witness ==
    /\ InLoop
    /\ ex.i = 1
    /\ Len(ex.results) = 1
    /\ ex.iterations = 3
    /\ ex.pad = "tool_output"

\* C26: within a run the turns never shrink: after every step of a stage and
\* after every merge, the turns of before are a prefix of the turns of after.
C26_TurnsNeverShrink ==
    [][(caller = "graph" /\ pc # <<"idle">>) =>
          IsPrefix(state.messages, state'.messages)]_vars

C26_Witness ==
    /\ pc = <<"END">>
    /\ trace = Canon
    /\ Len(state.messages) >= 5
    /\ state.messages[1] = Message("user", user_input)

\* C27: within a run no step removes a metadata key or changes its value, and
\* the record run returns holds the metadata as the last stage left it.
C27_MetadataOnlyGrows ==
    [][/\ (caller = "graph" /\ pc # <<"idle">>) =>
             KeptExcept(state.metadata, state'.metadata, {})
       /\ pc = <<"END">> =>
             (IsSome(result') /\ Get(result').metadata = state.metadata)]_vars

C27_Witness ==
    /\ IsSome(result)
    /\ DOMAIN Get(result).metadata =
          {"required_tools", "estimated_complexity", "validation_confidence"}
    /\ Get(result).metadata["required_tools"] = <<"analyze_data">>

\* C28: every run starts from a state that holds only the user turn of this run,
\* with no plan, no results, no status, no issues, no output and empty metadata,
\* and no turn of an earlier query ever shows in the state of a later run.
C28_FreshStatePerRun ==
    [][/\ (pc = <<"idle">> /\ pc' = <<"planner">>) =>
             state' = [messages |-> <<Message("user", user_input')>>,
                       current_plan |-> None,
                       execution_results |-> <<>>,
                       validation_status |-> None,
                       corrections_needed |-> <<>>,
                       final_output |-> None,
                       metadata |-> EmptyDict]
       /\ \A k \in 1..Len(state'.messages) :
             state'.messages[k].role = "user" =>
                 state'.messages[k].content = user_input'
       /\ (pc = <<"END">> /\ pc' = <<"idle">>) =>
             (IsSome(result') /\ Get(result').messages = state.messages
                              /\ Get(result').plan = state.current_plan
                              /\ Get(result').output = state.final_output
                              /\ Get(result').metadata = state.metadata)]_vars

C28_Witness ==
    /\ runs = 2
    /\ pc = <<"planner">>
    /\ user_input = <<"q2">>
    /\ state.messages = <<Message("user", <<"q2">>)>>
    /\ state.current_plan = None
    /\ Len(stm) = 2
    /\ stm[1].content = Some(<<"q1">>)
    /\ stm[2].content = Some(<<"fixed">>)

\* C30: in a run, the task plan sends to the oracle (the content of the latest
\* turn), and the original query validate and correct read (the content of the
\* first turn), are the query given to run.
C30_TaskIsOriginalQuery ==
    (caller = "graph" /\ runs > 0) =>
        /\ \A k \in 1..Len(calls) :
              /\ calls[k].agent = "planner" => calls[k].input[1] = user_input
              /\ calls[k].agent = "validator" => calls[k].input[1] = user_input
              /\ calls[k].agent = "corrector" => calls[k].input[3] = user_input
        /\ pc = <<"planner">> => plan_task(state) = user_input
        /\ (pc = <<"validator">> \/ pc = <<"corrector">>) =>
              original_query(state) = user_input

C30_Witness ==
    /\ Len(calls) = 3
    /\ calls[1].agent = "planner" /\ calls[1].input[1] = <<"q1">>
    /\ calls[2].agent = "validator" /\ calls[2].input[1] = <<"q1">>
    /\ calls[3].agent = "corrector" /\ calls[3].input[3] = <<"q1">>

\* the plan stage of this run returned a plan with no subtasks
EmptyPlan ==
    /\ caller = "graph"
    /\ IsSome(state.current_plan)
    /\ Get(state.current_plan) = <<>>

\* C31: in a run whose plan has no subtasks, execute records no results,
\* validate fails without a call to the oracle, the status is never passed, and
\* the run has gone through correct when the graph ends and when run returns.
C31_EmptyPlanGoesThroughCorrect ==
    EmptyPlan =>
        /\ InSeq("validator", trace) => state.execution_results = <<>>
        /\ CallsOf("validator") = 0
        /\ state.validation_status # Some("passed")
        /\ InSeq("corrector", trace) => state.validation_status = Some("failed")
        /\ (pc = <<"END">> \/ IsSome(result)) =>
              /\ state.validation_status = Some("failed")
              /\ InSeq("corrector", trace)
              /\ IsSome(state.final_output)

C31_Witness ==
    /\ EmptyPlan
    /\ IsSome(result)
    /\ trace = Canon
    /\ state.validation_status = Some("failed")
    /\ state.corrections_needed = <<<<"No execution results found">>>>
    /\ Len(calls) = 2

\* C32: short-term memory changes only in the step of run that follows a graph
\* that ended; the step in which run lets the exception of plan out, and every
\* step of the run before it, leaves short-term memory as it was at the call.
C32_FailedRunLeavesMemory ==
    [][/\ pc # <<"END">> => stm' = stm
       /\ (Len(pc) = 2 /\ pc[2] = "raised") =>
             (result' = <<"raised">> /\ pc' = <<"idle">> /\ stm' = stm)]_vars

C32_Witness ==
    /\ runs = 2
    /\ pc = <<"idle">>
    /\ result = <<"raised">>
    /\ user_input = <<"q2">>
    /\ calls[Len(calls)].agent = "planner"
    /\ Len(stm) = 2
    /\ stm[1] = Message("user", Some(<<"q1">>))
    /\ stm[2].role = "assistant"

\* C33: for every capacity, zero included, short-term memory holds at most
\* max_messages messages after each add_message and each clear.
C33_WithinCapacity ==
    pc = <<"stm">> => Len(stm) <= max_messages

\* C34: in a run, the tools the execute stage offers to the oracle and resolves
\* tool names against are the tools the registry holds.
C34_CatalogueFollowsRegistry ==
    (caller = "graph" /\ pc = <<"executor">>) =>
        {exec_tools[k] : k \in 1..Len(exec_tools)} = {tools[n] : n \in DOMAIN tools}

\* the entry of name n after the first k calls of the log, by the rule "the
\* tool most recently added under n, unless n was removed since"; construction
\* registers the four built-in tools under their names
RECURSIVE LastAdded(_, _, _)
LastAdded(log, k, n) ==
    IF k = 0 THEN (IF n \in ToolNames THEN Some(n) ELSE None)
    ELSE IF log[k].name = n
         THEN (IF log[k].op = "add" THEN Some(log[k].tool) ELSE None)
         ELSE LastAdded(log, k - 1, n)

\* C36: after any sequence of add_tool and remove_tool calls, get_tool(n) is the
\* tool most recently added under n if n was not removed since and none
\* otherwise, for every name (so no call changes the entry of another name), and
\* each remove_tool(n) returned true exactly when n was registered at the call.
C36_RegistryIsNameKeyedMap ==
    pc = <<"registry">> =>
        /\ DOMAIN tools \subseteq ToolNames \cup RegNames
        /\ \A n \in ToolNames \cup RegNames :
              get_tool(tools, n) = LastAdded(reg_log, Len(reg_log), n)
        /\ \A k \in 1..Len(reg_log) :
              reg_log[k].op = "remove" =>
                  reg_log[k].ret = (LastAdded(reg_log, k - 1, reg_log[k].name) # None)

C36_Witness ==
    /\ pc = <<"registry">>
    /\ reg_log = <<RegOp("add", "my_tool", "tool_v1", None),
                   RegOp("add", "my_tool", "tool_v2", None),
                   RegOp("remove", "analyze_data", None, TRUE)>>
    /\ get_tool(tools, "my_tool") = Some("tool_v2")
    /\ get_tool(tools, "analyze_data") = None
    /\ get_tool(tools, "generate_forecast") = Some("generate_forecast")

\* C35: correct, in each of its three branches, leaves current_plan,
\* execution_results, validation_status, corrections_needed and metadata as they
\* were, sets final_output and appends to the turns; a state that was failed
\* before correct is failed after it.
C35_CorrectFrame ==
    [][pc = <<"corrector">> =>
          /\ pc' = <<"corrector", "writes">> \/ pc' = <<"corrector", "returned">>
          /\ state'.current_plan = state.current_plan
          /\ state'.execution_results = state.execution_results
          /\ state'.validation_status = state.validation_status
          /\ state'.corrections_needed = state.corrections_needed
          /\ state'.metadata = state.metadata
          /\ IsSome(state'.final_output)
          /\ IsPrefix(state.messages, state'.messages)
          /\ Len(state'.messages) = Len(state.messages) + 1
          /\ state.validation_status = Some("failed") =>
                state'.validation_status = Some("failed")]_vars

C35_Witness ==
    /\ pc = <<"corrector", "returned">>
    /\ state.validation_status = Some("failed")
    /\ state.corrections_needed # <<>>
    /\ calls # <<>>
    /\ LastCall(calls).agent = "corrector"
    /\ LastCall(calls).reply = Ok(<<"fixed">>)
    /\ state.final_output = Some(<<"fixed">>)
    /\ state.metadata = ExtraMeta
    /\ state.current_plan = Some(<<<<"Load X">>>>)


====
